---------------------------- MODULE Spec2Model ----------------------------
(***************************************************************************)
(* Model of the build-time snapshot utility: the tabular extractors        *)
(* (parseCSV / parseCSVRow, fetchSheetData in its visualization-JSON       *)
(* variants) and the snapshot assembler (main).                            *)
(*                                                                         *)
(* JavaScript strings are sequences of one-character strings, so that      *)
(* trim, the quote state machines and the comma split are computed, not    *)
(* assumed.                                                                *)
(***************************************************************************)
EXTENDS Integers, Sequences, FiniteSets, TLC

VARIABLES
    csvText,      \* parseCSV: the argument
    csvDone,      \* parseCSV: has returned
    csvValues,    \* parseCSV: the local `values` of every data line, in order
    csvResult,    \* parseCSV: the returned array of Records
    variant,      \* fetchSheetData: which visualization-JSON variant runs
    table,        \* fetchSheetData: data.table of the parsed payload
    jsonDone,     \* fetchSheetData: has returned or thrown
    jsonThrew,    \* fetchSheetData: ended by throwing
    jsonValidCols, \* fetchSheetData: the local `validCols`
    jsonRows,     \* fetchSheetData: the index in table.rows of each pushed Record
    jsonResult,   \* fetchSheetData: the returned array of Records
    SHEET_ID,     \* process.env.GOOGLE_SHEET_ID
    pc,           \* main: "start", "awaiting" (at the await of Promise.all), "done"
    fetchState,   \* per sheet: "idle", "requested", "reading", "fulfilled", "rejected"
    requests,     \* the sheet names a network request was issued for, in order
    promiseAll,   \* the Promise.all of main: its state, values and remaining count
    completionOrder, \* the sheets in the order their fetchSheetData fulfilled
    outputFile,   \* public/report-data.json: what writeFileSync wrote
    writeFailed,  \* mkdirSync / writeFileSync threw
    stderr,       \* what console.error reported, in order
    exited,       \* the process has terminated
    exitCode      \* its status once terminated

csvVars == <<csvText, csvDone, csvValues, csvResult>>
jsonVars == <<variant, table, jsonDone, jsonThrew, jsonValidCols, jsonRows, jsonResult>>
mainVars == <<SHEET_ID, pc, fetchState, requests, promiseAll, completionOrder,
              outputFile, writeFailed, stderr, exited, exitCode>>
vars == <<csvVars, jsonVars, mainVars>>

(***************************************************************************)
(* Bounds of the enumerated inputs.                                        *)
(***************************************************************************)
MaxBody == 5
MaxGap == 11

(***************************************************************************)
(* JavaScript string helpers.                                              *)
(***************************************************************************)
QUOTE == "\""
COMMA == ","
LF == "\n"
CR == "\r"
SPACE == " "

\* The characters String.prototype.trim removes that the inputs can hold.
WhiteSpace == {SPACE, LF, CR, "\t"}

RECURSIVE trimStart(_)
trimStart(s) ==
    IF s # <<>> /\ Head(s) \in WhiteSpace THEN trimStart(Tail(s)) ELSE s

RECURSIVE trimEnd(_)
trimEnd(s) ==
    IF s # <<>> /\ s[Len(s)] \in WhiteSpace
    THEN trimEnd(SubSeq(s, 1, Len(s) - 1))
    ELSE s

trim(s) == trimEnd(trimStart(s))

(***************************************************************************)
(* parseCSVRow: split one line into values by unquoted commas.             *)
(***************************************************************************)
RECURSIVE parseCSVRowFrom(_, _, _, _, _)
parseCSVRowFrom(row, i, values, current, inQuotes) ==
    IF i > Len(row) THEN Append(values, current)
    ELSE LET char == row[i] IN
         IF char = QUOTE
         THEN IF inQuotes /\ i + 1 <= Len(row) /\ row[i + 1] = QUOTE
              THEN parseCSVRowFrom(row, i + 2, values, Append(current, QUOTE), inQuotes)
              ELSE parseCSVRowFrom(row, i + 1, values, current, ~inQuotes)
         ELSE IF char = COMMA /\ ~inQuotes
              THEN parseCSVRowFrom(row, i + 1, Append(values, current), <<>>, inQuotes)
              ELSE parseCSVRowFrom(row, i + 1, values, Append(current, char), inQuotes)

parseCSVRow(row) == parseCSVRowFrom(row, 1, <<>>, <<>>, FALSE)

(***************************************************************************)
(* parseCSV, first pass: cut the text into its non-blank lines.            *)
(***************************************************************************)
\* lines.push(currentLine) under `if (currentLine.trim())`.
PushLine(lines, currentLine) ==
    IF trim(currentLine) # <<>> THEN Append(lines, currentLine) ELSE lines

RECURSIVE TokenizeFrom(_, _, _, _, _)
TokenizeFrom(text, i, lines, currentLine, inQuotes) ==
    IF i > Len(text) THEN PushLine(lines, currentLine)
    ELSE LET char == text[i] IN
         IF char = QUOTE
         THEN IF inQuotes /\ i + 1 <= Len(text) /\ text[i + 1] = QUOTE
              THEN TokenizeFrom(text, i + 2, lines, Append(currentLine, QUOTE), inQuotes)
              ELSE TokenizeFrom(text, i + 1, lines, Append(currentLine, char), ~inQuotes)
         ELSE IF char = LF /\ ~inQuotes
              THEN TokenizeFrom(text, i + 1, PushLine(lines, currentLine), <<>>, inQuotes)
              ELSE IF char = CR /\ ~inQuotes
                   THEN TokenizeFrom(text, i + 1, lines, currentLine, inQuotes)
                   ELSE TokenizeFrom(text, i + 1, lines, Append(currentLine, char), inQuotes)

TokenizeLines(text) == TokenizeFrom(text, 1, <<>>, <<>>, FALSE)

(***************************************************************************)
(* parseCSV, second pass: one Record per data line.                        *)
(***************************************************************************)
\* A Record is a function from keys (strings) to values.
EmptyObj == [k \in {} |-> <<>>]

\* obj[key] = value
SetKey(obj, key, value) ==
    [k \in (DOMAIN obj) \cup {key} |-> IF k = key THEN value ELSE obj[k]]

\* values.some(v => v.trim() !== '')
HasData(values) == \E j \in 1..Len(values) : trim(values[j]) # <<>>

\* The inner loop over the headers: obj after columns j..headers.length.
RECURSIVE BuildObjFrom(_, _, _, _)
BuildObjFrom(headers, values, j, obj) ==
    IF j > Len(headers) THEN obj
    ELSE LET header == trim(headers[j])
             value == IF j <= Len(values) THEN trim(values[j]) ELSE <<>>
         IN  IF header # <<>> /\ value # <<>>
             THEN BuildObjFrom(headers, values, j + 1, SetKey(obj, header, value))
             ELSE BuildObjFrom(headers, values, j + 1, obj)

\* RowRecords without the rowHasData test: the row is kept whenever some value
\* is non-empty.
RowRecords_KeepOnHasData(headers, values) ==
    IF HasData(values) THEN <<BuildObjFrom(headers, values, 1, EmptyObj)>> ELSE <<>>

\* What one data line appends to `results`: nothing, or its Record.
RowRecords(headers, values) ==
    IF ~HasData(values) THEN <<>>
    ELSE LET obj == BuildObjFrom(headers, values, 1, EmptyObj)
         IN  IF DOMAIN obj # {} THEN <<obj>> ELSE <<>>

RECURSIVE DataRowsFrom(_, _, _, _)
DataRowsFrom(lines, headers, i, results) ==
    IF i > Len(lines) THEN results
    ELSE DataRowsFrom(lines, headers, i + 1,
                      results \o RowRecords(headers, parseCSVRow(lines[i])))

parseCSV(text) ==
    LET lines == TokenizeLines(text)
    IN  IF Len(lines) < 2 THEN <<>>
        ELSE DataRowsFrom(lines, parseCSVRow(lines[1]), 2, <<>>)

\* The local `values` of each iteration of the data-row loop.
DataValues(text) ==
    LET lines == TokenizeLines(text)
    IN  [i \in 1..(IF Len(lines) < 2 THEN 0 ELSE Len(lines) - 1) |->
            parseCSVRow(lines[i + 1])]

(***************************************************************************)
(* CSV inputs: a header line followed by a body of at most MaxBody         *)
(* characters.                                                             *)
(***************************************************************************)
BodyAlphabet == {"a", QUOTE, COMMA, LF, SPACE}

Strings(alphabet, n) == UNION {[1..k -> alphabet] : k \in 0..n}

HeaderLines ==
    { <<>>,
      <<"h", LF>>,
      <<"h", COMMA, "k", CR, LF>>,
      <<"h", COMMA, SPACE, LF>> }

CsvInputs == { h \o b : h \in HeaderLines, b \in Strings(BodyAlphabet, MaxBody) }

CsvIdle ==
    /\ csvText = <<>>
    /\ csvDone = FALSE
    /\ csvValues = <<>>
    /\ csvResult = <<>>

JsonIdle ==
    /\ variant = "none"
    /\ table = [cols |-> <<>>, rows |-> <<>>]
    /\ jsonDone = FALSE
    /\ jsonThrew = FALSE
    /\ jsonValidCols = <<>>
    /\ jsonRows = <<>>
    /\ jsonResult = <<>>

NoFile == [written |-> FALSE]

MainIdle ==
    /\ SHEET_ID = [t |-> "undefined", s |-> <<>>]
    /\ pc = "idle"
    /\ fetchState = <<>>
    /\ requests = <<>>
    /\ promiseAll = [state |-> "none"]
    /\ completionOrder = <<>>
    /\ outputFile = NoFile
    /\ writeFailed = FALSE
    /\ stderr = <<>>
    /\ exited = FALSE
    /\ exitCode = 0

CsvInit ==
    /\ JsonIdle
    /\ MainIdle
    /\ csvText \in CsvInputs
    /\ csvDone = FALSE
    /\ csvValues = <<>>
    /\ csvResult = <<>>

RunParseCSV ==
    /\ ~csvDone
    /\ csvDone' = TRUE
    /\ csvValues' = DataValues(csvText)
    /\ csvResult' = parseCSV(csvText)
    /\ UNCHANGED <<csvText, jsonVars, mainVars>>

CsvNext == RunParseCSV

SpecCSV == CsvInit /\ [][CsvNext]_vars

(***************************************************************************)
(* Reference notions the CSV claims are stated with.                       *)
(***************************************************************************)
\* The body of the text when it starts with the non-blank header line h.
StartsWith(text, h) == Len(h) <= Len(text) /\ SubSeq(text, 1, Len(h)) = h
BodyAfter(text, h) == SubSeq(text, Len(h) + 1, Len(text))
NonBlankHeaderLines == { h \in HeaderLines : trim(h) # <<>> }

\* Every quote of s is one half of a doubled quote.
RECURSIVE QuotesDoubled(_)
QuotesDoubled(s) ==
    IF s = <<>> THEN TRUE
    ELSE IF Head(s) = QUOTE
         THEN Len(s) >= 2 /\ s[2] = QUOTE /\ QuotesDoubled(SubSeq(s, 3, Len(s)))
         ELSE QuotesDoubled(Tail(s))

\* s with every doubled quote replaced by one quote.
RECURSIVE Unescape(_)
Unescape(s) ==
    IF s = <<>> THEN <<>>
    ELSE IF Head(s) = QUOTE /\ Len(s) >= 2 /\ s[2] = QUOTE
         THEN <<QUOTE>> \o Unescape(SubSeq(s, 3, Len(s)))
         ELSE <<Head(s)>> \o Unescape(Tail(s))

Inner(field) == SubSeq(field, 2, Len(field) - 1)

\* field is a quoted field: "..." with only doubled quotes inside.
IsQuotedField(field) ==
    /\ Len(field) >= 2
    /\ field[1] = QUOTE
    /\ field[Len(field)] = QUOTE
    /\ QuotesDoubled(Inner(field))

Contains(s, c) == \E i \in 1..Len(s) : s[i] = c

\* The commas of a source line that lie outside quoted fields.
RECURSIVE UnquotedCommasFrom(_, _, _)
UnquotedCommasFrom(line, i, inQuotes) ==
    IF i > Len(line) THEN 0
    ELSE IF line[i] = QUOTE
         THEN IF inQuotes /\ i + 1 <= Len(line) /\ line[i + 1] = QUOTE
              THEN UnquotedCommasFrom(line, i + 2, inQuotes)
              ELSE UnquotedCommasFrom(line, i + 1, ~inQuotes)
         ELSE (IF line[i] = COMMA /\ ~inQuotes THEN 1 ELSE 0)
              + UnquotedCommasFrom(line, i + 1, inQuotes)

UnquotedCommas(line) == UnquotedCommasFrom(line, 1, FALSE)

\* C7: a quoted field with doubled quotes yields, as one field, its content
\* with every doubled quote replaced by a single quote.
C7_DoubledQuoteYieldsLiteralQuote ==
    \A h \in NonBlankHeaderLines :
        (csvDone /\ StartsWith(csvText, h)
                 /\ IsQuotedField(BodyAfter(csvText, h))
                 /\ Contains(Inner(BodyAfter(csvText, h)), QUOTE))
        => csvValues = << <<Unescape(Inner(BodyAfter(csvText, h)))>> >>

\* C8: on a single data line the number of fields is the number of unquoted
\* commas plus one, and a quoted field containing commas is one field whose
\* value is the text between the quotes.
C8_QuotedCommaDoesNotSplit ==
    \A h \in NonBlankHeaderLines :
        (csvDone /\ StartsWith(csvText, h)
                 /\ ~Contains(BodyAfter(csvText, h), LF)
                 /\ trim(BodyAfter(csvText, h)) # <<>>)
        => LET line == BodyAfter(csvText, h) IN
           /\ Len(csvValues) = 1
           /\ Len(csvValues[1]) = UnquotedCommas(line) + 1
           /\ (IsQuotedField(line) /\ Contains(Inner(line), COMMA))
              => csvValues[1] = <<Unescape(Inner(line))>>

\* The lines of a text without quotes: the pieces between line feeds, carriage
\* returns removed, all-whitespace pieces dropped.
RECURSIVE PlainLinesFrom(_, _, _)
PlainLinesFrom(text, i, piece) ==
    IF i > Len(text)
    THEN IF trim(piece) # <<>> THEN <<piece>> ELSE <<>>
    ELSE IF text[i] = LF
         THEN (IF trim(piece) # <<>> THEN <<piece>> ELSE <<>>)
              \o PlainLinesFrom(text, i + 1, <<>>)
         ELSE PlainLinesFrom(text, i + 1,
                             IF text[i] = CR THEN piece ELSE Append(piece, text[i]))

\* The columns of a data line that hold a non-empty trimmed value under a
\* non-empty trimmed header.
PopulatedCols(headers, values) ==
    { j \in 1..Len(headers) :
        /\ trim(headers[j]) # <<>>
        /\ j <= Len(values)
        /\ trim(values[j]) # <<>> }

\* The Record of a data line: each populated header with the value of the last
\* column carrying that header.
LastCol(S) == CHOOSE j \in S : \A k \in S : k <= j
RecordOfLine(headers, values) ==
    LET cols == PopulatedCols(headers, values)
    IN  [key \in { trim(headers[j]) : j \in cols } |->
            trim(values[LastCol({ j \in cols : trim(headers[j]) = key })])]

RECURSIVE ExpectedRecordsFrom(_, _, _)
ExpectedRecordsFrom(lines, headers, i) ==
    IF i > Len(lines) THEN <<>>
    ELSE LET values == parseCSVRow(lines[i])
         IN  (IF PopulatedCols(headers, values) # {}
              THEN <<RecordOfLine(headers, values)>>
              ELSE <<>>)
             \o ExpectedRecordsFrom(lines, headers, i + 1)

\* C10: parseCSV returns, in source order, exactly one Record for each data
\* line with at least one non-empty trimmed value under a non-empty trimmed
\* header, none for an all-whitespace line or a line with zero populated keys,
\* and the empty result when there are fewer than two non-blank lines.
C10_OneRecordPerPopulatedLine ==
    csvDone =>
        LET lines == TokenizeLines(csvText) IN
        /\ ~Contains(csvText, QUOTE) => lines = PlainLinesFrom(csvText, 1, <<>>)
        /\ \A i \in 1..Len(lines) : trim(lines[i]) # <<>>
        /\ Len(lines) < 2 => csvResult = <<>>
        /\ Len(lines) >= 2 =>
              csvResult = ExpectedRecordsFrom(lines, parseCSVRow(lines[1]), 2)
        /\ \A n \in 1..Len(csvResult) : DOMAIN csvResult[n] # {}

\* The text  h,k CR LF a,a LF ,  (a header, a populated line, a line of
\* empty values) has been parsed into exactly one Record.
C10_Witness ==
    /\ csvDone
    /\ csvText = <<"h", COMMA, "k", CR, LF, "a", COMMA, "a", LF, COMMA>>
    /\ csvResult = << [key \in {<<"h">>, <<"k">>} |-> <<"a">>] >>


(***************************************************************************)
(* JavaScript values of the visualization-JSON payload.  Every value is a  *)
(* record [t, s]: its type tag and, for a string or a number, its text.    *)
(***************************************************************************)
Undefined == [t |-> "undefined", s |-> <<>>]
Null == [t |-> "null", s |-> <<>>]
Str(chars) == [t |-> "string", s |-> chars]
Num(digits) == [t |-> "number", s |-> digits]

\* A cell of row.c: null, or an object with a raw value v and a formatted f.
NullCell == [t |-> "null", v |-> Undefined, f |-> Undefined]
MissingCell == [t |-> "undefined", v |-> Undefined, f |-> Undefined]
Cell(v, f) == [t |-> "object", v |-> v, f |-> f]

\* A row: with a cell array c, or without one.
Row(cells) == [hasC |-> TRUE, c |-> cells]
RowWithoutCells == [hasC |-> FALSE, c |-> <<>>]

\* row.c[index]: undefined past the end of the array (index is 0-based).
CellAt(cells, index) ==
    IF index + 1 <= Len(cells) THEN cells[index + 1] ELSE MissingCell

\* cell?.v and cell?.f
OptV(cell) == IF cell.t = "object" THEN cell.v ELSE Undefined
OptF(cell) == IF cell.t = "object" THEN cell.f ELSE Undefined

IsNullish(value) == value.t \in {"null", "undefined"}

\* cell?.v !== null && cell?.v !== undefined ? cell.v : (cell?.f ?? null)
EffectiveValue(cell) ==
    IF ~IsNullish(OptV(cell)) THEN cell.v
    ELSE IF IsNullish(OptF(cell)) THEN Null ELSE OptF(cell)

\* value === '' || value === null || value === undefined
IsEmptyValue(value) ==
    IsNullish(value) \/ (value.t = "string" /\ value.s = <<>>)

\* The property key a label is stored under: obj[undefined] is obj["undefined"].
KeyOf(label) ==
    IF label.t = "undefined"
    THEN <<"u", "n", "d", "e", "f", "i", "n", "e", "d">>
    ELSE label.s

(***************************************************************************)
(* fetchSheetData (scripts/build-report-data.ts): the extraction from      *)
(* data.table.                                                             *)
(***************************************************************************)
MAX_CONSECUTIVE_EMPTY == 10

\* col.label?.trim()
TrimmedLabel(col) ==
    IF col.label.t = "string" THEN Str(trim(col.label.s)) ELSE Undefined

\* .filter(col => col.label !== '')
KeepsCol(label) == ~(label.t = "string" /\ label.s = <<>>)

RECURSIVE ValidColsFrom(_, _)
ValidColsFrom(cols, i) ==
    IF i > Len(cols) THEN <<>>
    ELSE (IF KeepsCol(TrimmedLabel(cols[i]))
          THEN <<[label |-> TrimmedLabel(cols[i]), index |-> i - 1]>>
          ELSE <<>>)
         \o ValidColsFrom(cols, i + 1)

ValidCols(cols) == ValidColsFrom(cols, 1)

\* The loop over validCols that builds one Record.
RECURSIVE BuildRecordFrom(_, _, _, _)
BuildRecordFrom(cells, validCols, k, obj) ==
    IF k > Len(validCols) THEN obj
    ELSE LET value == EffectiveValue(CellAt(cells, validCols[k].index))
         IN  BuildRecordFrom(cells, validCols, k + 1,
                 IF ~IsEmptyValue(value)
                 THEN SetKey(obj, KeyOf(validCols[k].label), value)
                 ELSE obj)

\* AfterEmptyRow with `>` for `>=`: the break is taken one row late.
AfterEmptyRow_BreakLate(consecutiveEmpty) ==
    [count |-> consecutiveEmpty + 1,
     break |-> consecutiveEmpty + 1 > MAX_CONSECUTIVE_EMPTY]

\* consecutiveEmpty++ and the test of the break.
AfterEmptyRow(consecutiveEmpty) ==
    [count |-> consecutiveEmpty + 1,
     break |-> consecutiveEmpty + 1 >= MAX_CONSECUTIVE_EMPTY]

\* The loop over table.rows; results holds, for each pushed Record, the
\* position of its row and the Record.
RECURSIVE ProcessRowsFrom(_, _, _, _, _)
ProcessRowsFrom(rows, validCols, r, consecutiveEmpty, results) ==
    IF r > Len(rows) THEN results
    ELSE LET row == rows[r] IN
         IF ~row.hasC \/ Len(validCols) = 0
         THEN ProcessRowsFrom(rows, validCols, r + 1, consecutiveEmpty, results)
         ELSE LET firstValue == EffectiveValue(CellAt(row.c, validCols[1].index))
              IN  IF IsEmptyValue(firstValue)
                  THEN LET after == AfterEmptyRow(consecutiveEmpty)
                       IN  IF after.break THEN results
                           ELSE ProcessRowsFrom(rows, validCols, r + 1,
                                                after.count, results)
                  ELSE ProcessRowsFrom(rows, validCols, r + 1, 0,
                           Append(results,
                                  [row |-> r,
                                   obj |-> BuildRecordFrom(row.c, validCols, 1, EmptyObj)]))

ExtractTable(t) ==
    LET validCols == ValidCols(t.cols)
    IN  IF Len(validCols) = 0 THEN <<>>
        ELSE ProcessRowsFrom(t.rows, validCols, 1, 0, <<>>)

(***************************************************************************)
(* fetchSheetData, the earlier unfiltered variant: every row becomes a     *)
(* Record.                                                                 *)
(***************************************************************************)
\* col.label || ''
UnfilteredHeader(col) ==
    IF col.label.t = "string" THEN col.label.s ELSE <<>>

\* row.c.forEach((cell, i) => { if (header) obj[header] = cell?.v ?? '' })
RECURSIVE UnfilteredObjFrom(_, _, _, _)
UnfilteredObjFrom(cols, cells, i, obj) ==
    IF i > Len(cells) THEN obj
    ELSE LET header == IF i <= Len(cols) THEN UnfilteredHeader(cols[i]) ELSE <<>>
             value == IF IsNullish(OptV(cells[i])) THEN Str(<<>>) ELSE cells[i].v
         IN  UnfilteredObjFrom(cols, cells, i + 1,
                 IF header # <<>> THEN SetKey(obj, header, value) ELSE obj)

\* row.c.forEach on a row without c throws a TypeError.
UnfilteredThrows(t) == \E r \in 1..Len(t.rows) : ~t.rows[r].hasC

ExtractUnfiltered(t) ==
    [r \in 1..Len(t.rows) |->
        [row |-> r, obj |-> UnfilteredObjFrom(t.cols, t.rows[r].c, 1, EmptyObj)]]

(***************************************************************************)
(* Visualization-JSON inputs: a column list, and a row list made of a run  *)
(* of one row, a row, a second run of the same row, and a last row.        *)
(***************************************************************************)
LabelA == Str(<<"a">>)
LabelB == Str(<<SPACE, "b", SPACE>>)
LabelEmpty == Str(<<>>)
LabelBlank == Str(<<SPACE>>)
Col(label) == [label |-> label]

ColsChoices ==
    { <<>>,
      <<Col(LabelA)>>,
      <<Col(Undefined)>>,
      <<Col(LabelBlank)>>,
      <<Col(LabelA), Col(LabelB)>>,
      <<Col(LabelEmpty), Col(LabelA)>>,
      <<Col(LabelBlank), Col(LabelB)>>,
      <<Col(Undefined), Col(LabelA)>>,
      <<Col(LabelA), Col(Undefined)>>,
      <<Col(LabelA), Col(LabelA)>> }

ValX == Str(<<"x">>)
CellX == Cell(ValX, Undefined)                 \* {v: "x"}
CellZero == Cell(Num(<<"0">>), Str(<<"0">>))   \* {v: 0, f: "0"}
CellFOnly == Cell(Null, ValX)                  \* {v: null, f: "x"}
CellEmptyV == Cell(Str(<<>>), ValX)            \* {v: "", f: "x"}
CellNullV == Cell(Null, Undefined)             \* {v: null}

RunRows ==
    { Row(<<NullCell, NullCell>>),
      Row(<<CellEmptyV, CellX>>) }

RowChoices ==
    { RowWithoutCells,
      Row(<<>>),
      Row(<<CellX, NullCell>>),
      Row(<<CellNullV, CellZero>>),
      Row(<<CellFOnly, CellEmptyV>>),
      Row(<<CellZero, CellX>>) }

OneOrNone(rows) == { <<>> } \cup { <<r>> : r \in rows }
Repeat(row, n) == [i \in 1..n |-> row]

RowLists ==
    { Repeat(run, e1) \o mid \o Repeat(run, e2) \o last :
        run \in RunRows,
        e1 \in 0..MaxGap,
        mid \in OneOrNone(RowChoices),
        e2 \in 0..MaxGap,
        last \in OneOrNone(RowChoices) }

Tables ==
    { [cols |-> cols, rows |-> rows] : cols \in ColsChoices, rows \in RowLists }

JsonInit ==
    /\ CsvIdle
    /\ MainIdle
    /\ variant \in {"optimized", "unfiltered"}
    /\ table \in Tables
    /\ variant = "unfiltered" => Len(table.rows) <= 2
    /\ Len(table.rows) <= MaxGap + 2
    /\ jsonDone = FALSE
    /\ jsonThrew = FALSE
    /\ jsonValidCols = <<>>
    /\ jsonRows = <<>>
    /\ jsonResult = <<>>

Rows(results) == [n \in 1..Len(results) |-> results[n].row]
Objs(results) == [n \in 1..Len(results) |-> results[n].obj]

RunFetchOptimized ==
    /\ variant = "optimized"
    /\ ~jsonDone
    /\ jsonDone' = TRUE
    /\ jsonThrew' = FALSE
    /\ jsonValidCols' = ValidCols(table.cols)
    /\ jsonRows' = Rows(ExtractTable(table))
    /\ jsonResult' = Objs(ExtractTable(table))
    /\ UNCHANGED <<variant, table, csvVars, mainVars>>

RunFetchUnfiltered ==
    /\ variant = "unfiltered"
    /\ ~jsonDone
    /\ jsonDone' = TRUE
    /\ jsonThrew' = UnfilteredThrows(table)
    /\ jsonValidCols' = <<>>
    /\ jsonRows' = IF UnfilteredThrows(table) THEN <<>>
                   ELSE Rows(ExtractUnfiltered(table))
    /\ jsonResult' = IF UnfilteredThrows(table) THEN <<>>
                     ELSE Objs(ExtractUnfiltered(table))
    /\ UNCHANGED <<variant, table, csvVars, mainVars>>

JsonNext == RunFetchOptimized \/ RunFetchUnfiltered

SpecJSON == JsonInit /\ [][JsonNext]_vars

(***************************************************************************)
(* Reference notions the visualization-JSON claims are stated with.        *)
(***************************************************************************)
Range(seq) == { seq[n] : n \in 1..Len(seq) }

\* The value of a row in the first valid column is empty (a row without a cell
\* array has no value there).
FirstValueEmpty(row) ==
    IsEmptyValue(EffectiveValue(CellAt(row.c, jsonValidCols[1].index)))

\* In the row list rs, ten consecutive rows with an empty first value end at
\* or before position q.
TenEmptySeenBy(rs, q) ==
    \E p \in 10..q : \A k \in (p - 9)..p : FirstValueEmpty(rs[k])

\* The positions of rs that hold a non-empty first value and come before any
\* ten consecutive rows with an empty first value.
IncludedPositions(rs) ==
    { q \in 1..Len(rs) : ~FirstValueEmpty(rs[q]) /\ ~TenEmptySeenBy(rs, q) }

Increasing(seq) == \A m, n \in 1..Len(seq) : m < n => seq[m] < seq[n]

\* The positions in table.rows of the rows that have a cell array, in order.
RECURSIVE CellRowsFrom(_, _)
CellRowsFrom(rows, r) ==
    IF r > Len(rows) THEN <<>>
    ELSE (IF rows[r].hasC THEN <<r>> ELSE <<>>) \o CellRowsFrom(rows, r + 1)

OptimizedRan == variant = "optimized" /\ jsonDone /\ Len(jsonValidCols) > 0

\* C1 (as stated): over the whole row list, a row with a non-empty first value
\* preceded by at most 9 consecutive empty rows is included, and nothing is
\* included once 10 consecutive rows with an empty first value have been seen.
C1_TenConsecutiveEmptyTruncate ==
    OptimizedRan =>
        /\ Increasing(jsonRows)
        /\ Range(jsonRows) = IncludedPositions(table.rows)

\* C1 (amended): the same, counted over the rows that have a cell array; a row
\* without a cell array is skipped, is not counted and does not reset the count.
C1_TenConsecutiveEmptyTruncate_CellRows ==
    OptimizedRan =>
        LET at == CellRowsFrom(table.rows, 1)
            rs == [n \in 1..Len(at) |-> table.rows[at[n]]]
        IN  /\ Increasing(jsonRows)
            /\ Range(jsonRows) = { at[q] : q \in IncludedPositions(rs) }
            /\ \A n \in 1..Len(jsonRows) :
                  jsonResult[n] =
                      BuildRecordFrom(table.rows[jsonRows[n]].c, jsonValidCols, 1, EmptyObj)

\* Nine rows with an empty first value and one row without a cell array precede
\* a row that is included.
C1_Witness ==
    /\ OptimizedRan
    /\ \E r \in Range(jsonRows) :
          /\ r > 10
          /\ \A k \in (r - 10)..(r - 1) : FirstValueEmpty(table.rows[k])
          /\ Cardinality({ k \in (r - 10)..(r - 1) : ~table.rows[k].hasC }) = 1

\* The columns whose label is a string that is non-empty after trimming.
LabelledCols(cols) ==
    { i \in 1..Len(cols) : cols[i].label.t = "string" /\ trim(cols[i].label.s) # <<>> }

\* C9: the valid columns are exactly the columns with a non-empty trimmed
\* label; no other column contributes a key or is the first valid column, and
\* with no such column the result is empty.
C9_ValidColsAreLabelledCols ==
    (variant = "optimized" /\ jsonDone) =>
        /\ { vc.index + 1 : vc \in Range(jsonValidCols) } = LabelledCols(table.cols)
        /\ LabelledCols(table.cols) = {} => jsonResult = <<>>
        /\ \A n \in 1..Len(jsonResult) :
              DOMAIN jsonResult[n] \subseteq
                  { trim(table.cols[i].label.s) : i \in LabelledCols(table.cols) }

\* C2: no Record holds an empty-string, null or undefined value, and every
\* value of a Record is the (trimmed / effective) value of a non-empty source
\* cell (JSON: of its row; CSV: of a data line).
C2_RecordsHoldOnlyNonEmptyCells ==
    /\ (jsonDone /\ ~jsonThrew) =>
          \A n \in 1..Len(jsonResult) : \A key \in DOMAIN jsonResult[n] :
              /\ ~IsEmptyValue(jsonResult[n][key])
              /\ \E cell \in Range(table.rows[jsonRows[n]].c) :
                    /\ ~IsEmptyValue(EffectiveValue(cell))
                    /\ jsonResult[n][key] = EffectiveValue(cell)
    /\ csvDone =>
          \A n \in 1..Len(csvResult) : \A key \in DOMAIN csvResult[n] :
              /\ csvResult[n][key] # <<>>
              /\ \E m \in 1..Len(csvValues) : \E j \in 1..Len(csvValues[m]) :
                    /\ trim(csvValues[m][j]) # <<>>
                    /\ csvResult[n][key] = trim(csvValues[m][j])

(***************************************************************************)
(* The snapshot assembler: main of scripts/build-report-data.ts.           *)
(***************************************************************************)
SHEET_NAMES ==
    << "Locations Metadata",
       "Yearly Funding Data",
       "Quarterly Funding Data",
       "Yearly Enterprise Value",
       "Top Industries, Tags, Rounds",
       "Top Rounds",
       "Regional Comparison" >>

Sheets == 1..Len(SHEET_NAMES)

\* Truthy as `SHEET_ID !== undefined`: only an unset variable counts as absent.
Truthy_EmptyIsPresent(value) == value.t # "undefined"

\* !SHEET_ID is false: the value is neither undefined nor the empty string.
Truthy(value) == ~IsNullish(value) /\ ~(value.t = "string" /\ value.s = <<>>)

\* What the spreadsheet serves for a sheet name: a one-column table whose
\* single row holds the name.
Spreadsheet(name) ==
    [cols |-> <<Col(LabelA)>>,
     rows |-> <<Row(<<Cell(Str(<<name>>), Undefined)>>)>>]

\* The value fetchSheetData(name) fulfils with on a well-formed payload.
SheetResult(name) == Objs(ExtractTable(Spreadsheet(name)))

UnsetSlot == [set |-> FALSE, v |-> <<>>]

NewPromiseAll ==
    [state |-> "pending",
     values |-> [i \in Sheets |-> UnsetSlot],
     remaining |-> Len(SHEET_NAMES)]

\* PromiseAllStore as a push: a value is stored in the next free slot, in the
\* order of completion.
PromiseAllStore_CompletionOrder(values, index, value) ==
    LET free == CHOOSE i \in Sheets :
                    ~values[i].set /\ \A j \in Sheets : ~values[j].set => i <= j
    IN  [values EXCEPT ![free] = [set |-> TRUE, v |-> value]]

\* Promise.all stores the value of its index-th promise at that index.
PromiseAllStore(values, index, value) ==
    [values EXCEPT ![index] = [set |-> TRUE, v |-> value]]

\* AllResolved with the count tested one early.
AllResolved_OneEarly(remaining) == remaining <= 1

\* Promise.all fulfils when no element remains.
AllResolved(remaining) == remaining = 0

PromiseAllOnFulfill(pa, index, value) ==
    [state |-> IF pa.state = "pending" /\ AllResolved(pa.remaining - 1)
               THEN "fulfilled" ELSE pa.state,
     values |-> PromiseAllStore(pa.values, index, value),
     remaining |-> pa.remaining - 1]

\* PromiseAllOnReject as in Promise.allSettled, which waits for every element
\* and never rejects.
PromiseAllOnReject_AllSettled(pa) ==
    [pa EXCEPT !.state = IF pa.state = "pending" /\ pa.remaining - 1 = 0
                         THEN "fulfilled" ELSE pa.state,
               !.remaining = pa.remaining - 1]

\* Promise.all rejects with the first rejection.
PromiseAllOnReject(pa) ==
    [pa EXCEPT !.state = IF pa.state = "pending" THEN "rejected" ELSE pa.state]

Months == 1..12
Years == {2026}

\* Math.ceil((now.getMonth() + 1) / 3), month counted from 1.
QuarterNumber(month) == (month + 2) \div 3

\* The object main serializes into the output file.
Output(sheetsData, year, month) ==
    [written |-> TRUE,
     meta |-> [source_sheet_id |-> SHEET_ID,
               reporting_quarter |-> <<year, "Q", QuarterNumber(month)>>,
               reporting_year |-> year,
               reporting_quarter_number |-> QuarterNumber(month),
               schema_version |-> "2.0"],
     sheets |-> [locations |-> sheetsData[1],
                 yearly_funding |-> sheetsData[2],
                 quarterly_funding |-> sheetsData[3],
                 yearly_ev |-> sheetsData[4],
                 top_industries_tags |-> sheetsData[5],
                 top_rounds |-> sheetsData[6],
                 regional_comparison |-> sheetsData[7]],
     config |-> [map_enabled |-> FALSE,
                 share_preview_enabled |-> TRUE,
                 default_location_id |-> "london"]]

MainInit ==
    /\ CsvIdle
    /\ JsonIdle
    /\ SHEET_ID \in {Undefined, Str(<<>>), Str(<<"i", "d">>)}
    /\ pc = "start"
    /\ fetchState = [i \in Sheets |-> "idle"]
    /\ requests = <<>>
    /\ promiseAll = [state |-> "none"]
    /\ completionOrder = <<>>
    /\ outputFile = NoFile
    /\ writeFailed = FALSE
    /\ stderr = <<>>
    /\ exited = FALSE
    /\ exitCode = 0

\* if (!SHEET_ID) { console.error(...); process.exit(1) }
MainMissingConfig ==
    /\ pc = "start"
    /\ ~exited
    /\ ~Truthy(SHEET_ID)
    /\ stderr' = Append(stderr, "GOOGLE_SHEET_ID environment variable is not set")
    /\ exited' = TRUE
    /\ exitCode' = 1
    /\ pc' = "done"
    /\ UNCHANGED <<SHEET_ID, fetchState, requests, promiseAll, completionOrder,
                   outputFile, writeFailed, csvVars, jsonVars>>

\* SHEET_NAMES.map(name => fetchSheetData(name)): every call runs up to its
\* await of fetch(url); main then awaits Promise.all of the seven promises.
MainFanOut ==
    /\ pc = "start"
    /\ ~exited
    /\ Truthy(SHEET_ID)
    /\ fetchState' = [i \in Sheets |-> "requested"]
    /\ requests' = SHEET_NAMES
    /\ promiseAll' = NewPromiseAll
    /\ pc' = "awaiting"
    /\ UNCHANGED <<SHEET_ID, completionOrder, outputFile, writeFailed, stderr,
                   exited, exitCode, csvVars, jsonVars>>

\* The response of sheet i arrives with response.ok: fetchSheetData goes on to
\* await response.text().
FetchResponseOk(i) ==
    /\ ~exited
    /\ fetchState[i] = "requested"
    /\ fetchState' = [fetchState EXCEPT ![i] = "reading"]
    /\ UNCHANGED <<SHEET_ID, pc, requests, promiseAll, completionOrder, outputFile,
                   writeFailed, stderr, exited, exitCode, csvVars, jsonVars>>

\* fetch rejects, or the response is not ok and fetchSheetData throws.
FetchResponseFails(i) ==
    /\ ~exited
    /\ fetchState[i] = "requested"
    /\ fetchState' = [fetchState EXCEPT ![i] = "rejected"]
    /\ promiseAll' = PromiseAllOnReject(promiseAll)
    /\ UNCHANGED <<SHEET_ID, pc, requests, completionOrder, outputFile,
                   writeFailed, stderr, exited, exitCode, csvVars, jsonVars>>

\* The text of sheet i arrives, matches the wrapper and is extracted:
\* fetchSheetData returns its results.
FetchTextExtracted(i) ==
    /\ ~exited
    /\ fetchState[i] = "reading"
    /\ fetchState' = [fetchState EXCEPT ![i] = "fulfilled"]
    /\ completionOrder' = Append(completionOrder, i)
    /\ promiseAll' = PromiseAllOnFulfill(promiseAll, i, SheetResult(SHEET_NAMES[i]))
    /\ UNCHANGED <<SHEET_ID, pc, requests, outputFile, writeFailed, stderr,
                   exited, exitCode, csvVars, jsonVars>>

\* The text of sheet i does not match the wrapper (or JSON.parse throws):
\* fetchSheetData throws.
FetchTextUnparseable(i) ==
    /\ ~exited
    /\ fetchState[i] = "reading"
    /\ fetchState' = [fetchState EXCEPT ![i] = "rejected"]
    /\ promiseAll' = PromiseAllOnReject(promiseAll)
    /\ UNCHANGED <<SHEET_ID, pc, requests, completionOrder, outputFile,
                   writeFailed, stderr, exited, exitCode, csvVars, jsonVars>>

SheetsData == [i \in Sheets |-> promiseAll.values[i].v]

\* Promise.all fulfilled: main builds the output, writes it and returns; with
\* nothing left to run the process ends with status 0.
MainWrites ==
    /\ pc = "awaiting"
    /\ ~exited
    /\ promiseAll.state = "fulfilled"
    /\ \E year \in Years, month \in Months :
          outputFile' = Output(SheetsData, year, month)
    /\ exited' = TRUE
    /\ exitCode' = 0
    /\ pc' = "done"
    /\ UNCHANGED <<SHEET_ID, fetchState, requests, promiseAll, completionOrder,
                   writeFailed, stderr, csvVars, jsonVars>>

\* Promise.all fulfilled, but mkdirSync or writeFileSync throws: the catch
\* block reports it and exits with status 1.
MainWriteFails ==
    /\ pc = "awaiting"
    /\ ~exited
    /\ promiseAll.state = "fulfilled"
    /\ writeFailed' = TRUE
    /\ stderr' = Append(stderr, "Cache failed")
    /\ exited' = TRUE
    /\ exitCode' = 1
    /\ pc' = "done"
    /\ UNCHANGED <<SHEET_ID, fetchState, requests, promiseAll, completionOrder,
                   outputFile, csvVars, jsonVars>>

\* Promise.all rejected: the await throws into the catch block, which reports
\* it and exits with status 1.
MainCatchesRejection ==
    /\ pc = "awaiting"
    /\ ~exited
    /\ promiseAll.state = "rejected"
    /\ stderr' = Append(stderr, "Cache failed")
    /\ exited' = TRUE
    /\ exitCode' = 1
    /\ pc' = "done"
    /\ UNCHANGED <<SHEET_ID, fetchState, requests, promiseAll, completionOrder,
                   outputFile, writeFailed, csvVars, jsonVars>>

Next ==
    \/ MainMissingConfig
    \/ MainFanOut
    \/ \E i \in Sheets : FetchResponseOk(i)
    \/ \E i \in Sheets : FetchResponseFails(i)
    \/ \E i \in Sheets : FetchTextExtracted(i)
    \/ \E i \in Sheets : FetchTextUnparseable(i)
    \/ MainWrites
    \/ MainWriteFails
    \/ MainCatchesRejection

Init == MainInit

Spec == Init /\ [][Next]_vars

(***************************************************************************)
(* The claims about main.                                                  *)
(***************************************************************************)
ConfigPresent == SHEET_ID.t = "string" /\ SHEET_ID.s # <<>>
SomeFetchFailed == pc # "start" /\ \E i \in Sheets : fetchState[i] = "rejected"
AllFetchesSucceeded == pc # "start" /\ \A i \in Sheets : fetchState[i] = "fulfilled"
InFlight(i) == fetchState[i] \in {"requested", "reading"}

\* C3: the output file is written only after all seven fetch-and-extract
\* operations have succeeded; with the configuration missing or any operation
\* failed there is no write, in whatever order the operations end.
C3_WriteOnlyAfterAllSeven ==
    /\ outputFile.written => (ConfigPresent /\ AllFetchesSucceeded)
    /\ (~ConfigPresent \/ SomeFetchFailed) => ~outputFile.written

\* The file has been written in a run whose fetches did not complete in the
\* declared order.
C3_Witness ==
    /\ outputFile.written
    /\ AllFetchesSucceeded
    /\ completionOrder # <<1, 2, 3, 4, 5, 6, 7>>

\* C4: the run ends with status 0 only if the configuration was present, all
\* seven fetches succeeded and the write succeeded; a missing configuration, a
\* failed fetch or parse, or a write error ends it with a non-zero status; and
\* once one fetch has failed the run can fail at once, whatever is in flight.
C4_ExitStatus ==
    /\ (exited /\ exitCode = 0) =>
          (ConfigPresent /\ AllFetchesSucceeded /\ outputFile.written /\ ~writeFailed)
    /\ (exited /\ (~ConfigPresent \/ SomeFetchFailed \/ writeFailed)) => exitCode # 0
    /\ (~exited /\ SomeFetchFailed) =>
          (promiseAll.state = "rejected" /\ ENABLED MainCatchesRejection)

\* The run has ended with status 1 on a failed fetch while other fetches were
\* still in flight.
C4_Witness ==
    /\ exited
    /\ exitCode = 1
    /\ SomeFetchFailed
    /\ \E j \in Sheets : InFlight(j)

\* C5: with the spreadsheet identifier unset or empty, no network request is
\* ever started, and the run reports the configuration error and ends with a
\* non-zero status.
C5_NoFetchWithoutConfig ==
    ~ConfigPresent =>
        /\ requests = <<>>
        /\ \A i \in Sheets : fetchState[i] = "idle"
        /\ pc # "start" =>
              /\ exited
              /\ exitCode # 0
              /\ stderr = <<"GOOGLE_SHEET_ID environment variable is not set">>

\* The run with the empty identifier has ended with status 1.
C5_Witness ==
    /\ SHEET_ID = Str(<<>>)
    /\ exited
    /\ exitCode = 1
    /\ requests = <<>>

\* The snapshot's sheet keys, in the order of the declared sheet names.
SnapshotKeys ==
    << "locations", "yearly_funding", "quarterly_funding", "yearly_ev",
       "top_industries_tags", "top_rounds", "regional_comparison" >>

\* C6: in a written snapshot each of the seven sheet keys holds the Sheet
\* Result of the sheet name at the same position of SHEET_NAMES, whatever the
\* order in which the fetches completed.
C6_PositionalAssembly ==
    outputFile.written =>
        \A k \in 1..7 :
            outputFile.sheets[SnapshotKeys[k]] =
                << [key \in {<<"a">>} |-> Str(<<SHEET_NAMES[k]>>)] >>

\* A snapshot has been written after the seven fetches completed in the
\* reverse of the declared order.
C6_Witness ==
    /\ outputFile.written
    /\ completionOrder = <<7, 6, 5, 4, 3, 2, 1>>

=============================================================================
